---------------------------- MODULE Spec2Model ----------------------------
(***************************************************************************)
(* numsim-core: the multi-key store (query_map.h) instantiated as in its   *)
(* test, query_map<std::tuple<int, std::string>, std::unordered_map>, and  *)
(* the parameter validation rules (input_parameter_controller.h) run       *)
(* against a flat name -> std::any handler.                                *)
(*                                                                         *)
(* A std::unordered_map is a set of <<key, value>> pairs. That keys are    *)
(* unique in it is a property of the operations, not of the                *)
(* representation.  A std::any is a record [type, val].                    *)
(***************************************************************************)
EXTENDS Integers, Sequences, FiniteSets, TLC

VARIABLES m_data,     \* query_map::m_data: pairs <<int, pairs <<string, any>>>>
          m_queries,  \* query_map::m_queries: sequence of <<func, <<k1, k2>>>>
          last,       \* what the caller of the last query_map operation saw
          calls,      \* the callbacks the last query_map operation invoked
          parameters, \* the flat handler: pairs <<name, any>>
          plast,      \* what the caller of the last rule check saw
          param,      \* one input_parameter: [m_name, T, m_checks]
          c_data,     \* input_parameter_controller::m_data: pairs <<name, parameter>>
          registered, \* the names in the order a controller's insert first saw them
          b_data,     \* m_data of a second controller, the source of a move
          h_data,     \* parameter_handler::m_data: pairs <<name, any>>
          inserted    \* per name, the value of the last insert since the last clear

vars == <<m_data, m_queries, last, calls, parameters, plast,
          param, c_data, registered, b_data, h_data, inserted>>
qvars == <<m_data, m_queries, last, calls>>
pvars == <<parameters, plast>>
cvars == <<param, c_data, registered, b_data>>
hvars == <<h_data, inserted>>

---------------------------------------------------------------------------
(* Bounds of the model *)

MaxVal == 1
MaxQueries == 2
MaxRuns == 2

FirstKeys == {1, 2}
LastKeys == {"1", "a"}
Paths == FirstKeys \X LastKeys
SetPaths == {<<1, "1">>, <<1, "a">>, <<2, "a">>}
QueryPaths == {<<1, "a">>, <<2, "a">>}
Data == 0 .. MaxVal
Callbacks == {"read", "incr"}

---------------------------------------------------------------------------
(* std::any *)

EmptyAny == [type |-> "void", val |-> 0]
NoValue == [type |-> "none", val |-> 0]

make_any(T, v) == [type |-> T, val |-> v]

any_cast(T, a) ==
  IF a.type = T THEN [status |-> "ok", val |-> a.val]
  ELSE [status |-> "bad_any_cast", val |-> 0]

value_gen(data) == make_any("int", data)

(* The callbacks handed to query: one that only reads its argument, as the *)
(* test's does, and one that writes through the reference.                 *)
invoke(func, value) ==
  IF func = "incr" /\ value.type = "int"
  THEN make_any("int", (value.val + 1) % (MaxVal + 1))
  ELSE value

---------------------------------------------------------------------------
(* Map<Key, Value> *)

find(map, key) == \E p \in map : p[1] = key

entry(map, key) == CHOOSE p \in map : p[1] = key

at(map, key) == entry(map, key)[2]

subscript(map, key, dflt) ==
  IF find(map, key) THEN map ELSE map \cup {<<key, dflt>>}

assign(map, key, v) == (map \ {entry(map, key)}) \cup {<<key, v>>}

---------------------------------------------------------------------------
(* query_map *)

str_first(key) == ToString(key)

str_last(key) == key

what_not_found(text) == "key " \o text \o " not found"

set_imp_emplace(map, data, lastkey) ==
  IF find(map, lastkey) THEN map ELSE map \cup {<<lastkey, value_gen(data)>>}

set_imp_last(map, data, lastkey) ==
  assign(subscript(map, lastkey, EmptyAny), lastkey, value_gen(data))

set_imp_fresh(map, data, first, lastkey) ==
  assign(subscript(map, first, {}), first, set_imp_last({}, data, lastkey))

set_imp_bycopy(map, data, first, lastkey) == subscript(map, first, {})

set_imp(map, data, first, lastkey) ==
  LET m1 == subscript(map, first, {})
  IN  assign(m1, first, set_imp_last(at(m1, first), data, lastkey))

get_list_impl(map, key_list) ==
  LET key == key_list[2]
  IN  IF ~find(map, key)
      THEN [status |-> "invalid_argument", at |-> 2,
            what |-> what_not_found(str_last(key)), map |-> map, ref |-> NoValue]
      ELSE [status |-> "ok", at |-> 0, what |-> "",
            map |-> subscript(map, key, EmptyAny),
            ref |-> at(subscript(map, key, EmptyAny), key)]

get_list_first_nofind(data, key_list) ==
  LET key == key_list[1]
      d1 == subscript(data, key, {})
      r == get_list_impl(at(d1, key), key_list)
  IN  [status |-> r.status, at |-> r.at, what |-> r.what,
       data |-> assign(d1, key, r.map), ref |-> r.ref]

get_list_first(data, key_list) ==
  LET key == key_list[1]
  IN  IF ~find(data, key)
      THEN [status |-> "invalid_argument", at |-> 1,
            what |-> what_not_found(str_first(key)), data |-> data, ref |-> NoValue]
      ELSE LET d1 == subscript(data, key, {})
               r == get_list_impl(at(d1, key), key_list)
           IN  [status |-> r.status, at |-> r.at, what |-> r.what,
                data |-> assign(d1, key, r.map), ref |-> r.ref]

(* The write a callback makes through the reference get_list_first returned *)
write_ref(data, key_list, value) ==
  assign(data, key_list[1], assign(at(data, key_list[1]), key_list[2], value))

RECURSIVE final_queries_rev(_, _, _, _)
final_queries_rev(data, queries, i, log) ==
  LET j == Len(queries) - i + 1
  IN  IF i > Len(queries)
      THEN [status |-> "ok", at |-> 0, what |-> "", data |-> data, log |-> log]
      ELSE LET g == get_list_first(data, queries[j][2])
           IN  IF g.status # "ok"
               THEN [status |-> g.status, at |-> g.at, what |-> g.what,
                     data |-> g.data, log |-> log]
               ELSE final_queries_rev(
                      write_ref(g.data, queries[j][2], invoke(queries[j][1], g.ref)),
                      queries, i + 1,
                      Append(log, [q |-> j, func |-> queries[j][1], arg |-> g.ref]))

RECURSIVE final_queries_skip(_, _, _, _)
final_queries_skip(data, queries, i, log) ==
  IF i > Len(queries)
  THEN [status |-> "ok", at |-> 0, what |-> "", data |-> data, log |-> log]
  ELSE LET g == get_list_first(data, queries[i][2])
       IN  IF g.status # "ok"
           THEN LET r == final_queries_skip(g.data, queries, i + 1, log)
                IN  [status |-> g.status, at |-> g.at, what |-> g.what,
                     data |-> r.data, log |-> r.log]
           ELSE final_queries_skip(
                  write_ref(g.data, queries[i][2], invoke(queries[i][1], g.ref)),
                  queries, i + 1,
                  Append(log, [q |-> i, func |-> queries[i][1], arg |-> g.ref]))

RECURSIVE final_queries_copy(_, _, _, _)
final_queries_copy(data, queries, i, log) ==
  IF i > Len(queries)
  THEN [status |-> "ok", at |-> 0, what |-> "", data |-> data, log |-> log]
  ELSE LET g == get_list_first(data, queries[i][2])
       IN  IF g.status # "ok"
           THEN [status |-> g.status, at |-> g.at, what |-> g.what,
                 data |-> g.data, log |-> log]
           ELSE final_queries_copy(g.data, queries, i + 1,
                  Append(log, [q |-> i, func |-> queries[i][1], arg |-> g.ref]))

(* for (auto &[func, id] : m_queries) func(get_list_first(id, ...)), from  *)
(* query i on: the store, the callbacks invoked so far, and the exception  *)
(* that ended the loop, if any.                                            *)
RECURSIVE final_queries_loop(_, _, _, _)
final_queries_loop(data, queries, i, log) ==
  IF i > Len(queries)
  THEN [status |-> "ok", at |-> 0, what |-> "", data |-> data, log |-> log]
  ELSE LET func == queries[i][1]
           id == queries[i][2]
           g == get_list_first(data, id)
       IN  IF g.status # "ok"
           THEN [status |-> g.status, at |-> g.at, what |-> g.what,
                 data |-> g.data, log |-> log]
           ELSE final_queries_loop(write_ref(g.data, id, invoke(func, g.ref)),
                                   queries, i + 1,
                                   Append(log, [q |-> i, func |-> func, arg |-> g.ref]))

---------------------------------------------------------------------------
(* The operations of query_map *)

NoKeys == <<0, "">>

(* What the caller saw: the operation and its arguments, the exception (its *)
(* type and what()) or the value returned.  Not seen by the caller, kept    *)
(* for the properties: at, the key position whose lookup threw; old, the    *)
(* value a set displaced; nruns, the final_queries calls in a row.          *)
Seen(op, keys, data, func, status, pos, what, ret, old, nruns) ==
  [op |-> op, keys |-> keys, data |-> data, func |-> func, status |-> status,
   at |-> pos, what |-> what, ret |-> ret, old |-> old, nruns |-> nruns]

set(data, k1, k2) ==
  /\ m_data' = set_imp(m_data, data, k1, k2)
  /\ last' = Seen("set", <<k1, k2>>, data, "", "ok", 0, "", NoValue,
                  get_list_first(m_data, <<k1, k2>>).ref, 0)
  /\ calls' = <<>>
  /\ UNCHANGED <<m_queries, pvars, cvars, hvars>>

get(k1, k2) ==
  LET r == get_list_first(m_data, <<k1, k2>>)
  IN  /\ m_data' = r.data
      /\ last' = Seen("get", <<k1, k2>>, 0, "", r.status, r.at, r.what, r.ref,
                      NoValue, 0)
      /\ calls' = <<>>
      /\ UNCHANGED <<m_queries, pvars, cvars, hvars>>

query_eager(func, k1, k2) ==
  LET r == get_list_first(m_data, <<k1, k2>>)
  IN  /\ Len(m_queries) < MaxQueries
      /\ m_data' = r.data
      /\ m_queries' = IF r.status = "ok"
                      THEN Append(m_queries, <<func, <<k1, k2>>>>)
                      ELSE m_queries
      /\ last' = Seen("query", <<k1, k2>>, 0, func, r.status, r.at, r.what,
                      NoValue, NoValue, 0)
      /\ calls' = <<>>
      /\ UNCHANGED <<pvars, cvars, hvars>>

query(func, k1, k2) ==
  /\ Len(m_queries) < MaxQueries
  /\ m_queries' = Append(m_queries, <<func, <<k1, k2>>>>)
  /\ last' = Seen("query", <<k1, k2>>, 0, func, "ok", 0, "", NoValue, NoValue, 0)
  /\ calls' = <<>>
  /\ UNCHANGED <<m_data, pvars, cvars, hvars>>

RunsNow == IF last.op = "final_queries"
           THEN (IF last.nruns < MaxRuns THEN last.nruns + 1 ELSE MaxRuns)
           ELSE 1

final_queries_consuming ==
  LET r == final_queries_loop(m_data, m_queries, 1, <<>>)
  IN  /\ m_data' = r.data
      /\ m_queries' = SubSeq(m_queries, Len(r.log) + 1, Len(m_queries))
      /\ last' = Seen("final_queries", NoKeys, 0, "", r.status, r.at, r.what,
                      NoValue, NoValue, RunsNow)
      /\ calls' = r.log
      /\ UNCHANGED <<pvars, cvars, hvars>>

final_queries ==
  LET r == final_queries_loop(m_data, m_queries, 1, <<>>)
  IN  /\ m_data' = r.data
      /\ last' = Seen("final_queries", NoKeys, 0, "", r.status, r.at, r.what,
                      NoValue, NoValue, RunsNow)
      /\ calls' = r.log
      /\ UNCHANGED <<m_queries, pvars, cvars, hvars>>

---------------------------------------------------------------------------
(* The flat handler (MockParameterHandler) and is_required *)

MaxInt == 2

Names == {"p", "q", "r"}
HandlerValues == {make_any("int", v) : v \in 0 .. MaxInt} \cup {make_any("string", 0)}

contains(input, name) == find(input, name)

handler_insert(input, name, value) ==
  assign(subscript(input, name, EmptyAny), name, value)

what_missing(name) == "Parameter " \o name \o " is missing!"

is_required_check_inverted(input, name) ==
  IF contains(input, name)
  THEN [status |-> "invalid_argument", what |-> what_missing(name), input |-> input]
  ELSE [status |-> "ok", what |-> "", input |-> input]

is_required_check(input, name) ==
  IF ~contains(input, name)
  THEN [status |-> "invalid_argument", what |-> what_missing(name), input |-> input]
  ELSE [status |-> "ok", what |-> "", input |-> input]

(* MockParameterHandler::get<T>: std::any_cast<T>(parameters.at(name)) *)
mock_get(input, name, T) ==
  IF ~find(input, name) THEN [status |-> "out_of_range", val |-> 0]
  ELSE any_cast(T, at(input, name))

what_out_of_range(name) == "Parameter " \o name \o " out of range"

check_range_check_exclusive(input, name, T, low, high) ==
  IF contains(input, name)
  THEN LET g == mock_get(input, name, T)
       IN  IF g.status # "ok"
           THEN [status |-> g.status, what |-> "bad any_cast", input |-> input]
           ELSE IF g.val <= low \/ g.val >= high
                THEN [status |-> "invalid_argument",
                      what |-> what_out_of_range(name), input |-> input]
                ELSE [status |-> "ok", what |-> "", input |-> input]
  ELSE [status |-> "ok", what |-> "", input |-> input]

check_range_check_nocontains(input, name, T, low, high) ==
  LET g == mock_get(input, name, T)
  IN  IF g.status # "ok"
      THEN [status |-> g.status, what |-> "bad any_cast", input |-> input]
      ELSE IF g.val < low \/ g.val > high
           THEN [status |-> "invalid_argument",
                 what |-> what_out_of_range(name), input |-> input]
           ELSE [status |-> "ok", what |-> "", input |-> input]

check_range_check(input, name, T, low, high) ==
  IF contains(input, name)
  THEN LET g == mock_get(input, name, T)
       IN  IF g.status # "ok"
           THEN [status |-> g.status, what |-> "bad any_cast", input |-> input]
           ELSE IF g.val < low \/ g.val > high
                THEN [status |-> "invalid_argument",
                      what |-> what_out_of_range(name), input |-> input]
                ELSE [status |-> "ok", what |-> "", input |-> input]
  ELSE [status |-> "ok", what |-> "", input |-> input]

set_default_check_always(input, name, value) ==
  [status |-> "ok", what |-> "", input |-> handler_insert(input, name, value)]

set_default_check_never(input, name, value) ==
  [status |-> "ok", what |-> "", input |-> input]

set_default_check(input, name, value) ==
  IF ~contains(input, name)
  THEN [status |-> "ok", what |-> "", input |-> handler_insert(input, name, value)]
  ELSE [status |-> "ok", what |-> "", input |-> input]

check_data_type_check_nothrow(input, name, T) ==
  [status |-> "ok", what |-> "", input |-> input]

check_data_type_check(input, name, T) ==
  IF contains(input, name)
  THEN LET g == mock_get(input, name, T)
       IN  IF g.status # "ok"
           THEN [status |-> g.status, what |-> "bad any_cast", input |-> input]
           ELSE [status |-> "ok", what |-> "", input |-> input]
  ELSE [status |-> "ok", what |-> "", input |-> input]

Types == {"int", "string"}

(* What the caller of the last handler or rule operation saw: the operation, *)
(* its arguments (the parameter's name and type T, the rule's bounds or      *)
(* default), the exception (type and what()) or "ok", the value returned.    *)
(* value is a rule's default or, for the controller's insert, the          *)
(* parameter it replaced.  Kept for the properties: ran, what a check ran,   *)
(* in order: <<name, 0, "scan", FALSE>> when the controller comes to a       *)
(* parameter, <<name, i, status, wrote>> for the i-th rule of its chain,     *)
(* with what the rule threw or "ok" and whether it wrote the handler.        *)
PSeenAll(op, name, T, low, high, value, status, what, ret, ran) ==
  [op |-> op, name |-> name, T |-> T, low |-> low, high |-> high,
   value |-> value, status |-> status, what |-> what, ret |-> ret, ran |-> ran]

PSeen(op, name, status, what) ==
  PSeenAll(op, name, "", 0, 0, NoValue, status, what, NoValue, <<>>)

insert(name, value) ==
  /\ parameters' = handler_insert(parameters, name, value)
  /\ plast' = PSeen("insert", name, "ok", "")
  /\ UNCHANGED <<qvars, cvars, hvars>>

check_is_required(name) ==
  LET r == is_required_check(parameters, name)
  IN  /\ parameters' = r.input
      /\ plast' = PSeen("is_required", name, r.status, r.what)
      /\ UNCHANGED <<qvars, cvars, hvars>>

check_check_range(name, low, high) ==
  LET r == check_range_check(parameters, name, "int", low, high)
  IN  /\ parameters' = r.input
      /\ plast' = PSeenAll("check_range", name, "int", low, high, NoValue,
                           r.status, r.what, NoValue, <<>>)
      /\ UNCHANGED <<qvars, cvars, hvars>>

check_set_default(name, value) ==
  LET r == set_default_check(parameters, name, value)
  IN  /\ parameters' = r.input
      /\ plast' = PSeenAll("set_default", name, value.type, 0, 0, value,
                           r.status, r.what, NoValue, <<>>)
      /\ UNCHANGED <<qvars, cvars, hvars>>

check_check_data_type(name, T) ==
  LET r == check_data_type_check(parameters, name, T)
  IN  /\ parameters' = r.input
      /\ plast' = PSeenAll("check_data_type", name, T, 0, 0, NoValue,
                           r.status, r.what, NoValue, <<>>)
      /\ UNCHANGED <<qvars, cvars, hvars>>

---------------------------------------------------------------------------
(* input_parameter: a name, the type T and the checks in the order of add *)

MaxChecks == 3
MaxCtlChecks == 2

input_parameter(name, T) == [m_name |-> name, T |-> T, m_checks |-> <<>>]

Rule(kind, low, high, value) ==
  [kind |-> kind, low |-> low, high |-> high, value |-> value]

(* The rules a parameter of type int is given: in range [1, 1] a stored 0 *)
(* is below, 1 is on both bounds and 2 is above; the default 0 is out of  *)
(* that range and the default 1 is in it.                                 *)
ChainRules ==
  {Rule("is_required", 0, 0, NoValue), Rule("check_range", 1, 1, NoValue),
   Rule("set_default", 0, 0, make_any("int", 0)),
   Rule("set_default", 0, 0, make_any("int", 1)),
   Rule("check_data_type", 0, 0, NoValue)}

(* check->check(input): the virtual call on one rule of a parameter *)
rule_check(rule, input, name, T) ==
  CASE rule.kind = "is_required" -> is_required_check(input, name)
    [] rule.kind = "check_range" ->
         check_range_check(input, name, T, rule.low, rule.high)
    [] rule.kind = "set_default" -> set_default_check(input, name, rule.value)
    [] OTHER -> check_data_type_check(input, name, T)

RECURSIVE param_check_loop_all(_, _, _, _, _, _)
param_check_loop_all(checks, name, T, i, input, ran) ==
  IF i > Len(checks)
  THEN [status |-> "ok", what |-> "", input |-> input, ran |-> ran]
  ELSE LET r == rule_check(checks[i], input, name, T)
           rest == param_check_loop_all(checks, name, T, i + 1, r.input,
                                        Append(ran, <<name, i, r.status, r.input # input>>))
       IN  IF r.status # "ok"
           THEN [status |-> r.status, what |-> r.what,
                 input |-> rest.input, ran |-> rest.ran]
           ELSE rest

RECURSIVE param_check_loop_rev(_, _, _, _, _, _)
param_check_loop_rev(checks, name, T, i, input, ran) ==
  IF i > Len(checks)
  THEN [status |-> "ok", what |-> "", input |-> input, ran |-> ran]
  ELSE LET r == rule_check(checks[Len(checks) + 1 - i], input, name, T)
           ran2 == Append(ran, <<name, i, r.status, r.input # input>>)
       IN  IF r.status # "ok"
           THEN [status |-> r.status, what |-> r.what,
                 input |-> r.input, ran |-> ran2]
           ELSE param_check_loop_rev(checks, name, T, i + 1, r.input, ran2)

(* for (auto &check : m_checks) check->check(input): an exception ends it *)
RECURSIVE param_check_loop(_, _, _, _, _, _)
param_check_loop(checks, name, T, i, input, ran) ==
  IF i > Len(checks)
  THEN [status |-> "ok", what |-> "", input |-> input, ran |-> ran]
  ELSE LET r == rule_check(checks[i], input, name, T)
           ran2 == Append(ran, <<name, i, r.status, r.input # input>>)
       IN  IF r.status # "ok"
           THEN [status |-> r.status, what |-> r.what,
                 input |-> r.input, ran |-> ran2]
           ELSE param_check_loop(checks, name, T, i + 1, r.input, ran2)

param_check_parameter(par, input, ran) ==
  param_check_loop(par.m_checks, par.m_name, par.T, 1, input, ran)

add(rule) ==
  /\ Len(param.m_checks) < MaxChecks
  /\ param' = [param EXCEPT !.m_checks = Append(@, rule)]
  /\ plast' = PSeenAll("add", param.m_name, param.T, rule.low, rule.high,
                       rule.value, "ok", "", NoValue, <<>>)
  /\ UNCHANGED <<qvars, parameters, c_data, registered, b_data, hvars>>

check_parameter ==
  LET r == param_check_parameter(param, parameters, <<>>)
  IN  /\ parameters' = r.input
      /\ plast' = PSeenAll("check_parameter", param.m_name, param.T, 0, 0,
                           NoValue, r.status, r.what, NoValue, r.ran)
      /\ UNCHANGED <<qvars, cvars, hvars>>

---------------------------------------------------------------------------
(* input_parameter_controller: m_data maps a name to its parameter *)

CtlNames == {"p", "q"}
CtlRules ==
  {Rule("is_required", 0, 0, NoValue),
   Rule("set_default", 0, 0, make_any("int", 1))}
CtlValues == {make_any("int", 0)}

(* A unique_ptr that owns nothing: operator[] on a new key, a moved-from entry *)
Null == [m_name |-> "", T |-> "", m_checks |-> <<>>]

Keys(map) == {e[1] : e \in map}

(* The orders in which a range-for may visit an unordered_map's keys *)
Orders(map) ==
  {o \in [1 .. Cardinality(Keys(map)) -> Keys(map)] :
     \A i, j \in DOMAIN o : i # j => o[i] # o[j]}

RECURSIVE controller_check_loop_all(_, _, _, _, _)
controller_check_loop_all(data, order, i, input, ran) ==
  IF i > Len(order)
  THEN [status |-> "ok", what |-> "", input |-> input, ran |-> ran]
  ELSE LET key == order[i]
           r == param_check_parameter(at(data, key), input,
                                      Append(ran, <<key, 0, "scan", FALSE>>))
           rest == controller_check_loop_all(data, order, i + 1, r.input, r.ran)
       IN  IF r.status # "ok"
           THEN [status |-> r.status, what |-> r.what,
                 input |-> rest.input, ran |-> rest.ran]
           ELSE rest

RECURSIVE controller_check_loop_rollback(_, _, _, _, _)
controller_check_loop_rollback(data, order, i, input, ran) ==
  IF i > Len(order)
  THEN [status |-> "ok", what |-> "", input |-> input, ran |-> ran]
  ELSE LET key == order[i]
           r == param_check_parameter(at(data, key), input,
                                      Append(ran, <<key, 0, "scan", FALSE>>))
           rest == controller_check_loop_rollback(data, order, i + 1, r.input, r.ran)
       IN  IF r.status # "ok"
           THEN [status |-> r.status, what |-> r.what,
                 input |-> input, ran |-> r.ran]
           ELSE IF rest.status # "ok" THEN [rest EXCEPT !.input = input]
           ELSE rest

controller_check_loop_first(data, order, i, input, ran) ==
  IF i > Len(order)
  THEN [status |-> "ok", what |-> "", input |-> input, ran |-> ran]
  ELSE param_check_parameter(at(data, order[i]), input,
                             Append(ran, <<order[i], 0, "scan", FALSE>>))

(* for (const auto &[key, check] : m_data) check->check_parameter(parameter) *)
(* check-> on an entry whose unique_ptr holds nothing is undefined: the   *)
(* scan ends there with status "null_dereference" (a crash of the process). *)
RECURSIVE controller_check_loop(_, _, _, _, _)
controller_check_loop(data, order, i, input, ran) ==
  IF i > Len(order)
  THEN [status |-> "ok", what |-> "", input |-> input, ran |-> ran]
  ELSE IF at(data, order[i]) = Null
  THEN [status |-> "null_dereference", what |-> "", input |-> input,
        ran |-> Append(ran, <<order[i], 0, "scan", FALSE>>)]
  ELSE LET key == order[i]
           r == param_check_parameter(at(data, key), input,
                                      Append(ran, <<key, 0, "scan", FALSE>>))
       IN  IF r.status # "ok"
           THEN r
           ELSE controller_check_loop(data, order, i + 1, r.input, r.ran)

Register(names, name) ==
  IF \E i \in DOMAIN names : names[i] = name THEN names ELSE Append(names, name)

controller_insert_keep(data, name, T) ==
  IF find(data, name) THEN data
  ELSE assign(subscript(data, name, Null), name, input_parameter(name, T))

(* auto &para{m_data[name]}; para = std::make_unique<input_parameter<T>>(name) *)
controller_insert_map(data, name, T) ==
  assign(subscript(data, name, Null), name, input_parameter(name, T))

controller_insert(name, T) ==
  /\ c_data' = controller_insert_map(c_data, name, T)
  /\ registered' = Register(registered, name)
  /\ plast' = PSeenAll("controller_insert", name, T, 0, 0,
                       IF find(c_data, name) THEN at(c_data, name) ELSE NoValue,
                       "ok", "", NoValue, <<>>)
  /\ UNCHANGED <<qvars, parameters, param, b_data, hvars>>

(* controller.get(name).add<Check>(args...), on the reference insert returned *)
controller_add(name, rule) ==
  /\ find(c_data, name)
  /\ Len(at(c_data, name).m_checks) < MaxCtlChecks
  /\ c_data' = assign(c_data, name,
                      [at(c_data, name) EXCEPT !.m_checks = Append(@, rule)])
  /\ plast' = PSeenAll("controller_add", name, at(c_data, name).T, rule.low,
                       rule.high, rule.value, "ok", "", NoValue, <<>>)
  /\ UNCHANGED <<qvars, parameters, param, registered, b_data, hvars>>

controller_check_parameter ==
  \E order \in Orders(c_data) :
    LET r == controller_check_loop(c_data, order, 1, parameters, <<>>)
    IN  /\ parameters' = r.input
        /\ plast' = PSeenAll("controller_check_parameter", "", "", 0, 0,
                             NoValue, r.status, r.what, NoValue, r.ran)
        /\ UNCHANGED <<qvars, cvars, hvars>>

(* get(name): return *m_data[name].get().  operator[] creates the entry  *)
(* of an unregistered name with a unique_ptr that holds nothing, and the  *)
(* reference returned is then one to no object ("null_dereference").      *)
controller_get(name) ==
  /\ c_data' = subscript(c_data, name, Null)
  /\ plast' = PSeen("controller_get", name,
                    IF find(c_data, name) /\ at(c_data, name) # Null
                    THEN "ok" ELSE "null_dereference", "")
  /\ UNCHANGED <<qvars, parameters, param, registered, b_data, hvars>>

(* input_parameter_controller(input_parameter_controller &&data): the new *)
(* controller takes the map of data, which is left empty.                 *)
move_construct ==
  /\ c_data' = b_data
  /\ b_data' = {}
  /\ plast' = PSeen("move_construct", "", "ok", "")
  /\ UNCHANGED <<qvars, parameters, param, registered, hvars>>

(* A second controller, the source of a move; its parameters are of type *)
(* std::string, which tells them from those inserted into the first.     *)
source_insert(name, T) ==
  /\ b_data' = controller_insert_map(b_data, name, T)
  /\ plast' = PSeenAll("source_insert", name, T, 0, 0,
                       IF find(b_data, name) THEN at(b_data, name) ELSE NoValue,
                       "ok", "", NoValue, <<>>)
  /\ UNCHANGED <<qvars, parameters, param, c_data, registered, hvars>>

(* for (auto &[key, check] : data.m_data) m_data[key] = std::move(check) *)
RECURSIVE move_assign_loop(_, _, _)
move_assign_loop(a, b, keys) ==
  IF keys = {} THEN a
  ELSE LET key == CHOOSE k \in keys : TRUE
       IN  move_assign_loop(assign(subscript(a, key, Null), key, at(b, key)),
                            b, keys \ {key})

move_assign_wholesale(a, b) ==
  [a |-> b, b |-> {}]

(* operator=(input_parameter_controller &&data): the maps of *this and of *)
(* data after it.  A moved-from std::unordered_map is left empty; a       *)
(* moved-from std::unique_ptr holds nothing and its key stays in data.    *)
move_assign_maps(a, b) ==
  IF a = {}
  THEN [a |-> b, b |-> {}]
  ELSE [a |-> move_assign_loop(a, b, Keys(b)),
        b |-> {<<key, Null>> : key \in Keys(b)}]

move_assign ==
  LET r == move_assign_maps(c_data, b_data)
  IN  /\ c_data' = r.a
      /\ b_data' = r.b
      /\ plast' = PSeenAll("move_assign", "", "", 0, 0, NoValue, "ok", "",
                           NoValue, <<>>)
      /\ UNCHANGED <<qvars, parameters, param, registered, hvars>>

---------------------------------------------------------------------------
(* parameter_handler: a flat std::unordered_map<std::string, std::any> *)

HNames == {"p", "q"}

what_key_not_found(name) == "Key " \o name \o " not found"

insert_or_assign_keep(map, name, value) ==
  IF find(map, name) THEN map ELSE map \cup {<<name, value>>}

(* m_data.insert_or_assign(name, value) *)
insert_or_assign(map, name, value) ==
  IF find(map, name) THEN assign(map, name, value)
  ELSE map \cup {<<name, value>>}

data_or_empty(map, name) ==
  IF ~find(map, name)
  THEN [status |-> "ok", what |-> "", ret |-> EmptyAny]
  ELSE [status |-> "ok", what |-> "", ret |-> at(map, name)]

(* data(name): find, throw std::invalid_argument at end(), else pos->second *)
data_of(map, name) ==
  IF ~find(map, name)
  THEN [status |-> "invalid_argument", what |-> what_key_not_found(name),
        ret |-> NoValue]
  ELSE [status |-> "ok", what |-> "", ret |-> at(map, name)]

get_of_coerce(map, name, T) ==
  LET d == data_of(map, name)
  IN  IF d.status # "ok" THEN d
      ELSE [status |-> "ok", what |-> "", ret |-> make_any(T, d.ret.val)]

(* get<T>(name) const: as data, then std::any_cast<const T &> *)
get_of(map, name, T) ==
  LET d == data_of(map, name)
  IN  IF d.status # "ok" THEN d
      ELSE LET c == any_cast(T, d.ret)
           IN  IF c.status # "ok"
               THEN [status |-> c.status, what |-> "bad any_cast", ret |-> NoValue]
               ELSE [status |-> "ok", what |-> "", ret |-> make_any(T, c.val)]

Bool(b) == make_any("bool", IF b THEN 1 ELSE 0)

ph_insert(name, value) ==
  /\ h_data' = insert_or_assign(h_data, name, value)
  /\ inserted' = [inserted EXCEPT ![name] = value]
  /\ plast' = PSeenAll("ph_insert", name, value.type, 0, 0, value, "ok", "",
                       value, <<>>)
  /\ UNCHANGED <<qvars, parameters, cvars>>

ph_get(name, T) ==
  LET r == get_of(h_data, name, T)
  IN  /\ plast' = PSeenAll("ph_get", name, T, 0, 0, NoValue, r.status, r.what,
                           r.ret, <<>>)
      /\ UNCHANGED <<qvars, parameters, cvars, hvars>>

ph_data(name) ==
  LET r == data_of(h_data, name)
  IN  /\ plast' = PSeenAll("ph_data", name, "", 0, 0, NoValue, r.status, r.what,
                           r.ret, <<>>)
      /\ UNCHANGED <<qvars, parameters, cvars, hvars>>

ph_contains(name) ==
  /\ plast' = PSeenAll("ph_contains", name, "", 0, 0, NoValue, "ok", "",
                       Bool(find(h_data, name)), <<>>)
  /\ UNCHANGED <<qvars, parameters, cvars, hvars>>

ph_clear ==
  /\ h_data' = {}
  /\ inserted' = [name \in HNames |-> NoValue]
  /\ plast' = PSeen("ph_clear", "", "ok", "")
  /\ UNCHANGED <<qvars, parameters, cvars>>

---------------------------------------------------------------------------
(* Specifications *)

Init ==
  /\ m_data = {}
  /\ m_queries = <<>>
  /\ last = Seen("none", NoKeys, 0, "", "ok", 0, "", NoValue, NoValue, 0)
  /\ calls = <<>>
  /\ parameters = {}
  /\ plast = PSeen("none", "", "ok", "")
  /\ param = input_parameter("p", "int")
  /\ c_data = {}
  /\ registered = <<>>
  /\ b_data = {}
  /\ h_data = {}
  /\ inserted = [name \in HNames |-> NoValue]

Next ==
  \/ \E data \in Data, keys \in SetPaths : set(data, keys[1], keys[2])
  \/ \E keys \in Paths : get(keys[1], keys[2])
  \/ \E func \in Callbacks, keys \in QueryPaths : query(func, keys[1], keys[2])
  \/ final_queries

Spec == Init /\ [][Next]_vars

ParamNext ==
  \/ \E name \in Names, value \in HandlerValues : insert(name, value)
  \/ \E name \in Names : check_is_required(name)
  \/ \E name \in Names, low \in 0 .. MaxInt, high \in 0 .. MaxInt :
       check_check_range(name, low, high)
  \/ \E name \in Names, value \in HandlerValues : check_set_default(name, value)
  \/ \E name \in Names, T \in Types : check_check_data_type(name, T)

ParamSpec == Init /\ [][ParamNext]_vars

ChainNext ==
  \/ \E value \in HandlerValues : insert(param.m_name, value)
  \/ \E rule \in ChainRules : add(rule)
  \/ check_parameter

ChainSpec == Init /\ [][ChainNext]_vars

CtlNext ==
  \/ \E name \in CtlNames, value \in CtlValues : insert(name, value)
  \/ \E name \in CtlNames : controller_insert(name, "int")
  \/ \E name \in CtlNames, rule \in CtlRules : controller_add(name, rule)
  \/ controller_check_parameter

CtlSpec == Init /\ [][CtlNext]_vars

MoveNext ==
  \/ \E name \in CtlNames : controller_insert(name, "int")
  \/ \E name \in CtlNames : source_insert(name, "string")
  \/ \E name \in CtlNames : controller_get(name)
  \/ move_assign
  \/ move_construct
  \/ controller_check_parameter

MoveSpec == Init /\ [][MoveNext]_vars

ScenarioNext ==
  \/ \E value \in HandlerValues : insert("p", value)
  \/ controller_insert("p", "int")
  \/ \E rule \in ChainRules : controller_add("p", rule)
  \/ controller_check_parameter

ScenarioSpec == Init /\ [][ScenarioNext]_vars

HandlerNext ==
  \/ \E name \in HNames, value \in HandlerValues : ph_insert(name, value)
  \/ \E name \in HNames, T \in Types : ph_get(name, T)
  \/ \E name \in HNames : ph_data(name)
  \/ \E name \in HNames : ph_contains(name)
  \/ ph_clear

HandlerSpec == Init /\ [][HandlerNext]_vars

---------------------------------------------------------------------------
(* Properties of query_map *)

(* The values stored at a key path: none, or, in a map with unique keys, one *)
Stored(data, keys) ==
  LET inner == UNION {f[2] : f \in {g \in data : g[1] = keys[1]}}
  IN  {e[2] : e \in {h \in inner : h[1] = keys[2]}}

HasFirst(data, key) == key \in {f[1] : f \in data}

Failed == "invalid_argument"

Unresolved(data, queries) ==
  {i \in 1 .. Len(queries) : Stored(data, queries[i][2]) = {}}

FirstUnresolved(data, queries) ==
  CHOOSE i \in Unresolved(data, queries) :
    \A j \in Unresolved(data, queries) : i <= j

(* The value at keys once the callbacks of queries 1..n have run on it *)
RECURSIVE Effect(_, _, _, _)
Effect(queries, n, keys, value) ==
  IF n = 0 THEN value
  ELSE LET w == Effect(queries, n - 1, keys, value)
       IN  IF queries[n][2] = keys THEN invoke(queries[n][1], w) ELSE w

(* C1: after set stores v at (k1,k2), get(k1,k2) succeeds and returns an   *)
(* any of v's type whose value is v, whatever set, get, query and          *)
(* final_queries calls came before.                                        *)
C1_RoundTrip ==
  last.op = "set" =>
    LET g == get_list_first(m_data, last.keys)
    IN  /\ g.status = "ok"
        /\ any_cast("int", g.ref) = [status |-> "ok", val |-> last.data]

C1_Witness ==
  /\ last.op = "set"
  /\ last.data = 1
  /\ m_queries # <<>>
  /\ Cardinality(m_data) = 2

(* C2: a set on a path that already holds a value a leaves exactly one     *)
(* value at that path, the new one b, and get returns b.                   *)
C2_Overwrite ==
  (last.op = "set" /\ last.old # NoValue) =>
    /\ Stored(m_data, last.keys) = {value_gen(last.data)}
    /\ Cardinality({e \in m_data : e[1] = last.keys[1]}) = 1
    /\ get_list_first(m_data, last.keys).ref = value_gen(last.data)

C2_Witness ==
  /\ last.op = "set"
  /\ last.old.type = "int"
  /\ last.old.val # last.data

(* C3: get(k1,k2) throws exactly when no value is stored at (k1,k2): at the *)
(* first key when k1 is absent, at the last key when k1 is present and k2   *)
(* is absent under it; a get that throws leaves the store as it was, so     *)
(* the same get throws again.                                               *)
C3_KeyNotFound ==
  [][last'.op = "get" =>
       LET k == last'.keys
       IN  /\ (last'.status = Failed) <=> (Stored(m_data, k) = {})
           /\ ~HasFirst(m_data, k[1]) => last'.status = Failed /\ last'.at = 1
           /\ (HasFirst(m_data, k[1]) /\ Stored(m_data, k) = {}) =>
                last'.status = Failed /\ last'.at = 2
           /\ last'.status = Failed =>
                /\ m_data' = m_data
                /\ get_list_first(m_data', k).status = Failed
                /\ get_list_first(m_data', k).at = last'.at]_vars

C3_Witness ==
  /\ last.op = "get"
  /\ last.status = Failed
  /\ last.at = 2
  /\ HasFirst(m_data, last.keys[1])

(* C4: the exception of a get that fails at the last key differs from the  *)
(* exception the same get raises when the first key is missing (as it is   *)
(* in the empty store): the error tells which segment of the path failed.  *)
C4_ErrorTellsSegment ==
  (last.op = "get" /\ last.status = Failed /\ last.at = 2) =>
    LET first == get_list_first({}, last.keys)
    IN  first.at = 1 /\ <<first.status, first.what>> # <<last.status, last.what>>

(* C5: in every run of final_queries the callbacks are invoked in the      *)
(* order of registration: the n-th invocation is of the n-th query, so a   *)
(* query's callback runs only after those of all queries registered        *)
(* before it.                                                              *)
C5_RegistrationOrder ==
  last.op = "final_queries" =>
    /\ Len(calls) <= Len(m_queries)
    /\ \A n \in 1 .. Len(calls) :
         calls[n].q = n /\ calls[n].func = m_queries[n][1]

C5_Witness ==
  /\ last.op = "final_queries"
  /\ Len(calls) = 2
  /\ calls[1].func # calls[2].func

(* C6: query only appends (callback, keys) to the list: it does not fail,  *)
(* also for a path that is not in the store, invokes no callback and       *)
(* leaves the store as it was; the missing path is an error of the         *)
(* final_queries that runs the query.                                      *)
C6_QueryOnlyAppends ==
  [][/\ last'.op = "query" =>
          /\ last'.status = "ok"
          /\ m_queries' = Append(m_queries, <<last'.func, last'.keys>>)
          /\ calls' = <<>>
          /\ m_data' = m_data
     /\ (last'.op = "final_queries" /\ Unresolved(m_data, m_queries) # {}) =>
          last'.status = Failed]_vars

C6_Witness ==
  /\ last.op = "query"
  /\ last.status = "ok"
  /\ ~HasFirst(m_data, last.keys[1])
  /\ m_queries[Len(m_queries)] = <<last.func, last.keys>>

(* C7: a final_queries that reaches a query k whose path is unresolved     *)
(* throws; exactly the callbacks of queries 1..k-1 were invoked, what they *)
(* wrote is in the store, and no callback of query k or later ran.         *)
C7_FailureAbortsRun ==
  [][(last'.op = "final_queries" /\ Unresolved(m_data, m_queries) # {}) =>
       LET k == FirstUnresolved(m_data, m_queries)
       IN  /\ last'.status = Failed
           /\ Len(calls') = k - 1
           /\ \A n \in 1 .. Len(calls') : calls'[n].q = n
           /\ \A p \in Paths :
                Stored(m_data', p) =
                  {Effect(m_queries, k - 1, p, v) : v \in Stored(m_data, p)}]_vars

C7_Witness ==
  /\ last.op = "final_queries"
  /\ last.status = Failed
  /\ Len(m_queries) = 2
  /\ Len(calls) = 1
  /\ calls[1].func = "incr"

(* C8 as claimed: every run of final_queries, successful or failed, keeps  *)
(* the query list and invokes every registered callback once (so n runs    *)
(* invoke each n times).                                                   *)
C8_EveryRunInvokesAll ==
  [][last'.op = "final_queries" =>
       /\ m_queries' = m_queries
       /\ Len(calls') = Len(m_queries)]_vars

(* C8 as amended: every run keeps the query list; a run that does not      *)
(* throw invokes every registered callback once, a run that throws fewer;  *)
(* the first callback of a run is handed the value the store holds then,   *)
(* which is the value the runs before left.                                *)
C8_RunsKeepQueries ==
  [][last'.op = "final_queries" =>
       /\ m_queries' = m_queries
       /\ last'.status = "ok" =>
            /\ Len(calls') = Len(m_queries)
            /\ \A n \in 1 .. Len(calls') : calls'[n].q = n
       /\ last'.status = Failed => Len(calls') < Len(m_queries)
       /\ calls' # <<>> => calls'[1].arg \in Stored(m_data, m_queries[1][2])]_vars

C8_Witness ==
  /\ last.op = "final_queries"
  /\ last.nruns = 2
  /\ last.status = "ok"
  /\ Len(calls) = Len(m_queries)
  /\ calls # <<>>
  /\ calls[1].func = "incr"

(* C9: a callback is handed the value get would return when it runs: the   *)
(* stored value as changed by the callbacks before it in the run (after a  *)
(* set on the path, the value set, whenever the query was registered); and *)
(* what the callbacks wrote is what get returns after the run.             *)
C9_CallbackSeesCurrentValue ==
  [][last'.op = "final_queries" =>
       /\ \A n \in 1 .. Len(calls') :
            LET p == m_queries[n][2]
            IN  /\ {calls'[n].arg} = {Effect(m_queries, n - 1, p, v) : v \in Stored(m_data, p)}
                /\ {get_list_first(m_data', p).ref} =
                     {Effect(m_queries, Len(calls'), p, v) : v \in Stored(m_data, p)}
       /\ (last.op = "set" /\ calls' # <<>> /\ m_queries[1][2] = last.keys) =>
            calls'[1].arg = value_gen(last.data)]_vars

C9_Witness ==
  /\ last.op = "final_queries"
  /\ Len(calls) = 2
  /\ m_queries[1] = m_queries[2]
  /\ calls[1].func = "incr"
  /\ calls[2].arg = invoke("incr", calls[1].arg)
  /\ calls[2].arg # calls[1].arg
  /\ get_list_first(m_data, m_queries[1][2]).ref = invoke("incr", calls[2].arg)

---------------------------------------------------------------------------
(* Properties of the rules *)

(* C10: is_required's check throws invalid_argument naming the parameter   *)
(* exactly when the handler does not contain the name, returns otherwise,  *)
(* and leaves the handler as it was in both cases.                         *)
C10_RequiredRule ==
  [][plast'.op = "is_required" =>
       /\ (plast'.status = Failed) <=> (plast'.name \notin {e[1] : e \in parameters})
       /\ plast'.status = Failed => plast'.what = what_missing(plast'.name)
       /\ plast'.status # Failed => plast'.status = "ok"
       /\ parameters' = parameters]_vars

C10_Witness ==
  /\ plast.op = "is_required"
  /\ plast.status = Failed
  /\ parameters # {}

(* The value the handler holds under a name, NoValue when it holds none *)
Held(input, name) ==
  IF \E e \in input : e[1] = name
  THEN (CHOOSE e \in input : e[1] = name)[2]
  ELSE NoValue

(* C11: check_range(low, high) passes when the name is absent; when it is  *)
(* present with an int v it throws the out-of-range invalid_argument       *)
(* exactly when v < low or v > high, so v = low and v = high pass; the     *)
(* handler is never written.                                               *)
C11_RangeRule ==
  [][plast'.op = "check_range" =>
       LET v == Held(parameters, plast'.name)
       IN  /\ parameters' = parameters
           /\ v = NoValue => plast'.status = "ok"
           /\ v.type = "int" =>
                /\ (plast'.status = Failed) <=>
                     (v.val < plast'.low \/ v.val > plast'.high)
                /\ plast'.status = Failed => plast'.what = what_out_of_range(plast'.name)
                /\ plast'.status # Failed => plast'.status = "ok"]_vars

C11_Witness ==
  /\ plast.op = "check_range"
  /\ plast.status = "ok"
  /\ plast.low < plast.high
  /\ Held(parameters, plast.name) = make_any("int", plast.high)

(* C12: set_default(d) never throws; it inserts d under the name when the  *)
(* name is absent and leaves the handler as it was when the name is        *)
(* present, whatever value it holds.                                       *)
C12_DefaultFillRule ==
  [][plast'.op = "set_default" =>
       /\ plast'.status = "ok"
       /\ Held(parameters, plast'.name) = NoValue =>
            /\ Held(parameters', plast'.name) = plast'.value
            /\ \A n \in Names \ {plast'.name} :
                 Held(parameters', n) = Held(parameters, n)
       /\ Held(parameters, plast'.name) # NoValue => parameters' = parameters]_vars

C12_Witness ==
  /\ plast.op = "set_default"
  /\ Held(parameters, plast.name) # NoValue
  /\ Held(parameters, plast.name) # plast.value

C14_ChainOrder ==
  [][plast'.op = "check_parameter" =>
       LET ran == plast'.ran
           n == Len(ran)
           checks == param.m_checks
       IN  /\ n <= Len(checks)
           /\ \A i \in 1 .. n : ran[i][2] = i
           /\ \A i \in 1 .. n - 1 : ran[i][3] = "ok"
           /\ n < Len(checks) => ran[n][3] # "ok"
           /\ n = 0 => plast'.status = "ok" /\ Len(checks) = 0
           /\ n > 0 => plast'.status = ran[n][3]
           /\ (\A i \in 1 .. n : checks[i].kind # "set_default" \/ ran[i][3] # "ok")
                => parameters' = parameters
           /\ (Len(checks) > 0 /\ checks[1].kind = "is_required"
               /\ Held(parameters, param.m_name) = NoValue)
                => /\ plast'.status = Failed
                   /\ plast'.what = what_missing(param.m_name)
                   /\ n = 1
                   /\ parameters' = parameters]_vars

C14_Witness ==
  /\ plast.op = "check_parameter"
  /\ Len(param.m_checks) = 2
  /\ param.m_checks[1].kind = "is_required"
  /\ param.m_checks[2].kind = "set_default"
  /\ plast.status = Failed
  /\ Len(plast.ran) = 1
  /\ parameters = {}

IsScan(e) == e[2] = 0
IsRule(e) == e[2] > 0

(* The names a controller's check came to, in order *)
ScanOf(ran) == SelectSeq(ran, IsScan)
Scanned(ran) == {ran[i][1] : i \in {j \in DOMAIN ran : IsScan(ran[j])}}

Pos(names, name) == CHOOSE i \in DOMAIN names : names[i] = name

(* C15 as the claim states it: when the controller's check_parameter       *)
(* fails, no parameter registered after the failing one was checked.       *)
C15_RegisteredAfterNotChecked ==
  [][(plast'.op = "controller_check_parameter" /\ plast'.status # "ok") =>
       LET ran == plast'.ran
           failing == ran[Len(ran)][1]
       IN  \A n \in Keys(c_data) :
             Pos(registered, n) > Pos(registered, failing) => n \notin Scanned(ran)]_vars

(* C15, amended: the controller's check_parameter comes to each parameter  *)
(* at most once, in the order the unordered_map hands them out; the first  *)
(* parameter that fails ends the scan and the caller sees its exception;   *)
(* every parameter before it in that order ran its whole chain and         *)
(* passed, and a parameter after it in that order is not checked: none of  *)
(* its rules run and its default is not inserted.                          *)
C15_ScanStopsAtFirstFailure ==
  [][plast'.op = "controller_check_parameter" =>
       LET ran == plast'.ran
           scan == ScanOf(ran)
           RulesOf(n) == {i \in DOMAIN ran : IsRule(ran[i]) /\ ran[i][1] = n}
       IN  /\ \A i, j \in DOMAIN scan : i # j => scan[i][1] # scan[j][1]
           /\ Scanned(ran) \subseteq Keys(c_data)
           /\ \A i \in DOMAIN ran :
                (IsRule(ran[i]) /\ ran[i][3] # "ok") =>
                   i = Len(ran) /\ plast'.status = ran[i][3]
           /\ plast'.status = "ok" => Scanned(ran) = Keys(c_data)
           /\ plast'.status # "ok" =>
                /\ Len(ran) > 0
                /\ IsRule(ran[Len(ran)])
                /\ ran[Len(ran)][3] = plast'.status
                /\ ran[Len(ran)][1] = scan[Len(scan)][1]
           /\ \A i \in DOMAIN scan :
                (plast'.status = "ok" \/ i < Len(scan)) =>
                   Cardinality(RulesOf(scan[i][1]))
                     = Len(at(c_data, scan[i][1]).m_checks)
           /\ \A n \in Keys(c_data) \ Scanned(ran) :
                /\ RulesOf(n) = {}
                /\ Held(parameters', n) = Held(parameters, n)]_vars

C15_Witness ==
  /\ plast.op = "controller_check_parameter"
  /\ plast.status = Failed
  /\ Cardinality(Keys(c_data)) = 2
  /\ Cardinality(Scanned(plast.ran)) = 1
  /\ \E n \in Keys(c_data) \ Scanned(plast.ran) :
       /\ Len(at(c_data, n).m_checks) > 0
       /\ at(c_data, n).m_checks[1].kind = "set_default"
       /\ Held(parameters, n) = NoValue

(* C16 as the claim states it: when the controller's check_parameter       *)
(* fails, the handler is the handler of before the call.                   *)
C16_FailureLeavesHandler ==
  [][(plast'.op = "controller_check_parameter" /\ plast'.status # "ok") =>
       parameters' = parameters]_vars

(* The defaults a check inserts: of every set_default that ran and passed  *)
(* on a name the handler did not hold, the first of its chain.             *)
Inserted(ran, data, input) ==
  {<<ran[i][1], at(data, ran[i][1]).m_checks[ran[i][2]].value>> :
     i \in {j \in DOMAIN ran :
              /\ IsRule(ran[j])
              /\ ran[j][3] = "ok"
              /\ ~find(input, ran[j][1])
              /\ at(data, ran[j][1]).m_checks[ran[j][2]].kind = "set_default"
              /\ \A k \in 1 .. ran[j][2] - 1 :
                   at(data, ran[j][1]).m_checks[k].kind # "set_default"}}

(* C16, amended: a failing check_parameter is not undone.  The handler     *)
(* after it is the handler of before the call and the defaults that the    *)
(* set_default rules which ran before the failure inserted for absent      *)
(* names; no entry that was present is changed or removed.                 *)
C16_FailureKeepsInsertedDefaults ==
  [][(plast'.op = "controller_check_parameter" /\ plast'.status # "ok") =>
       /\ parameters' = parameters \cup Inserted(plast'.ran, c_data, parameters)
       /\ parameters \subseteq parameters']_vars

C16_Witness ==
  /\ plast.op = "controller_check_parameter"
  /\ plast.status = Failed
  /\ \E i \in DOMAIN plast.ran : plast.ran[i][4]
  /\ \E e \in parameters : e[2] = make_any("int", 1)

(* C17: the controller's insert<T>(name) never throws; after it the name   *)
(* is bound to one fresh parameter with no rules, whatever was bound       *)
(* before, and the entries of the other names are as they were; the map    *)
(* never holds two entries of one name; check_parameter runs for a name    *)
(* only the rules of the parameter now bound to it.                        *)
C17_InsertReplaces ==
  [][/\ plast'.op = "controller_insert" =>
          /\ plast'.status = "ok"
          /\ {e \in c_data' : e[1] = plast'.name}
               = {<<plast'.name, input_parameter(plast'.name, plast'.T)>>}
          /\ {e \in c_data' : e[1] # plast'.name}
               = {e \in c_data : e[1] # plast'.name}
     /\ \A e1, e2 \in c_data' : e1[1] = e2[1] => e1 = e2
     /\ plast'.op = "controller_check_parameter" =>
          \A i \in DOMAIN plast'.ran :
            IsRule(plast'.ran[i]) =>
              plast'.ran[i][2] <= Len(at(c_data, plast'.ran[i][1]).m_checks)]_vars

C17_Witness ==
  /\ plast.op = "controller_insert"
  /\ plast.value # NoValue
  /\ Len(plast.value.m_checks) > 0
  /\ at(c_data, plast.name).m_checks = <<>>
  /\ \E e \in c_data : e[1] # plast.name /\ Len(e[2].m_checks) > 0

(* C18: move-assigning controller B to a non-empty controller A binds in   *)
(* A every name of B to B's parameter and leaves A's parameters of all     *)
(* other names as they were; move-assigning B to an empty A makes A's map  *)
(* the map B had.  A's map never holds two entries of one name.            *)
C18_MergeOnMove ==
  [][plast'.op = "move_assign" =>
       /\ c_data = {} => c_data' = b_data
       /\ c_data # {} =>
            /\ {e \in c_data' : e[1] \in Keys(b_data)} = b_data
            /\ {e \in c_data' : e[1] \notin Keys(b_data)}
                 = {e \in c_data : e[1] \notin Keys(b_data)}
       /\ \A e1, e2 \in c_data' : e1[1] = e2[1] => e1 = e2]_vars

C18_Witness ==
  /\ plast.op = "move_assign"
  /\ \E e \in b_data : e[2] = Null
  /\ \E e \in c_data : e[2].T = "int"
  /\ \E e \in c_data : e[2].T = "string"

Kinds(checks) == {checks[i].kind : i \in DOMAIN checks}

(* C22: a parameter whose rules are is_required and check_range, in either *)
(* order, checked on a handler that lacks its name: check_parameter throws *)
(* the invalid_argument of is_required ("... is missing!"); check_range    *)
(* reads no value: it does not run when it comes after is_required and     *)
(* passes on the absent name when it comes before; the handler is as it    *)
(* was.                                                                    *)
C22_RequiredBeforeRange ==
  [][(/\ plast'.op = "check_parameter"
      /\ Kinds(param.m_checks) = {"is_required", "check_range"}
      /\ ~find(parameters, param.m_name)) =>
       LET ran == plast'.ran
           n == Len(ran)
       IN  /\ plast'.status = Failed
           /\ plast'.what = what_missing(param.m_name)
           /\ param.m_checks[n].kind = "is_required"
           /\ \A i \in 1 .. n - 1 :
                param.m_checks[i].kind = "check_range" /\ ran[i][3] = "ok"
           /\ param.m_checks[1].kind = "is_required" => n = 1
           /\ parameters' = parameters]_vars

C22_Witness ==
  /\ plast.op = "check_parameter"
  /\ plast.status = Failed
  /\ Len(param.m_checks) = 2
  /\ param.m_checks[1].kind = "is_required"
  /\ param.m_checks[2].kind = "check_range"
  /\ Len(plast.ran) = 1
  /\ ~find(parameters, param.m_name)

DefaultFill(d) == Rule("set_default", 0, 0, make_any("int", d))
Required == Rule("is_required", 0, 0, NoValue)
Range(lo, hi) == Rule("check_range", lo, hi, NoValue)

(* C23: a controller with one parameter whose chain is check_range(lo, hi) *)
(* then set_default(d), lo <= d <= hi (here 1, 1, 1).  On a handler that   *)
(* lacks the name check_parameter passes and the handler then maps the     *)
(* name to d; on a handler that holds a value above hi it throws the       *)
(* out-of-range invalid_argument and the value stays.                      *)
C23_RangeThenDefault ==
  [][(/\ plast'.op = "controller_check_parameter"
      /\ c_data = {<<"p", [input_parameter("p", "int") EXCEPT
                             !.m_checks = <<Range(1, 1), DefaultFill(1)>>]>>}) =>
       LET v == Held(parameters, "p")
       IN  /\ v = NoValue =>
                /\ plast'.status = "ok"
                /\ parameters' = parameters \cup {<<"p", make_any("int", 1)>>}
           /\ (v # NoValue /\ v.type = "int" /\ v.val > 1) =>
                /\ plast'.status = Failed
                /\ plast'.what = what_out_of_range("p")
                /\ parameters' = parameters]_vars

C23_Witness ==
  /\ plast.op = "controller_check_parameter"
  /\ plast.status = Failed
  /\ plast.what = what_out_of_range("p")
  /\ c_data = {<<"p", [input_parameter("p", "int") EXCEPT
                         !.m_checks = <<Range(1, 1), DefaultFill(1)>>]>>}
  /\ Held(parameters, "p") = make_any("int", 2)

(* C24: a parameter whose chain is set_default(d), is_required,            *)
(* check_range(lo, hi) with lo <= d <= hi (here 1, 1, 1): absent, the      *)
(* check passes and leaves the name at d; present with an int in range,    *)
(* it passes and leaves the handler as it was; present with an int out of  *)
(* range, it throws the out-of-range invalid_argument.  Whatever the       *)
(* chain, when a set_default comes before every is_required the check      *)
(* never throws "... is missing!".                                         *)
C24_DefaultRequiredRange ==
  [][plast'.op = "check_parameter" =>
       LET v == Held(parameters, param.m_name)
           checks == param.m_checks
       IN  /\ checks = <<DefaultFill(1), Required, Range(1, 1)>> =>
                /\ v = NoValue =>
                     /\ plast'.status = "ok"
                     /\ Held(parameters', param.m_name) = make_any("int", 1)
                /\ (v # NoValue /\ v.type = "int" /\ v.val = 1) =>
                     plast'.status = "ok" /\ parameters' = parameters
                /\ (v # NoValue /\ v.type = "int" /\ v.val # 1) =>
                     /\ plast'.status = Failed
                     /\ plast'.what = what_out_of_range(param.m_name)
           /\ (\E i \in DOMAIN checks :
                 /\ checks[i].kind = "set_default"
                 /\ \A j \in 1 .. i - 1 : checks[j].kind # "is_required")
                => ~(plast'.status = Failed
                     /\ plast'.what = what_missing(param.m_name))]_vars

C24_Witness ==
  /\ plast.op = "check_parameter"
  /\ param.m_checks = <<DefaultFill(1), Required, Range(1, 1)>>
  /\ plast.status = "ok"
  /\ Len(plast.ran) = 3
  /\ plast.ran[1][4]
  /\ parameters = {<<param.m_name, make_any("int", 1)>>}

(* C25: a controller's check_parameter that passes came to every           *)
(* registered parameter once and ran each rule of its chain once, in       *)
(* order; after it the handler holds every registered name whose chain     *)
(* has a set_default and every registered name whose chain has an          *)
(* is_required.                                                            *)
C25_SuccessCoversAll ==
  [][(plast'.op = "controller_check_parameter" /\ plast'.status = "ok") =>
       LET ran == plast'.ran
           scan == ScanOf(ran)
       IN  /\ Len(scan) = Cardinality(Keys(c_data))
           /\ Scanned(ran) = Keys(c_data)
           /\ \A n \in Keys(c_data) :
                LET rules == SelectSeq(ran, IsRule)
                    mine == {i \in DOMAIN rules : rules[i][1] = n}
                IN  /\ Cardinality(mine) = Len(at(c_data, n).m_checks)
                    /\ {rules[i][2] : i \in mine} = DOMAIN at(c_data, n).m_checks
                    /\ \A i, j \in mine : i < j => rules[i][2] < rules[j][2]
           /\ \A n \in Keys(c_data) :
                (Kinds(at(c_data, n).m_checks) \cap {"set_default", "is_required"} # {})
                  => find(parameters', n)]_vars

C25_Witness ==
  /\ plast.op = "controller_check_parameter"
  /\ plast.status = "ok"
  /\ \E i \in DOMAIN plast.ran : plast.ran[i][4]
  /\ \E n, m \in Keys(c_data) :
       /\ n # m
       /\ "set_default" \in Kinds(at(c_data, n).m_checks)
       /\ Kinds(at(c_data, m).m_checks) = {"is_required"}
       /\ find(parameters, n)
       /\ find(parameters, m)

(* C26: a controller's check_parameter, passing or failing, leaves the     *)
(* controller and its parameters and rules as they were; it never removes  *)
(* or changes an entry of the handler; every entry it adds is under a      *)
(* registered name the handler did not hold and is the default of a        *)
(* set_default of that name's chain.                                       *)
C26_CheckFrame ==
  [][plast'.op = "controller_check_parameter" =>
       /\ c_data' = c_data
       /\ parameters \subseteq parameters'
       /\ \A e \in parameters' \ parameters :
            /\ ~find(parameters, e[1])
            /\ e[1] \in Keys(c_data)
            /\ \E i \in DOMAIN at(c_data, e[1]).m_checks :
                 /\ at(c_data, e[1]).m_checks[i].kind = "set_default"
                 /\ at(c_data, e[1]).m_checks[i].value = e[2]
       /\ \A e1, e2 \in parameters' : e1[1] = e2[1] => e1 = e2]_vars

C26_Witness ==
  /\ plast.op = "controller_check_parameter"
  /\ \E i \in DOMAIN plast.ran : plast.ran[i][4]
  /\ \E e \in parameters : e[2] = make_any("int", 0)
  /\ \E e \in parameters : e[2] = make_any("int", 1)
  /\ \E n \in Keys(c_data) :
       /\ "set_default" \in Kinds(at(c_data, n).m_checks)
       /\ Held(parameters, n) = make_any("int", 0)

(* What get would give the caller for a path: the value or the exception *)
Result(data, path) ==
  LET g == get_list_first(data, path)
  IN  [status |-> g.status, what |-> g.what, ref |-> g.ref]

(* C27 as the claim states it: a set at (k1, k2) leaves, for every other   *)
(* path, the result of get (the value, or the failure) and the registered  *)
(* queries as they were.                                                   *)
C27_SetChangesOnlyItsPath ==
  [][last'.op = "set" =>
       /\ \A path \in Paths \ {last'.keys} :
            Result(m_data', path) = Result(m_data, path)
       /\ m_queries' = m_queries]_vars

(* C27, amended: a set at (k1, k2) leaves the registered queries as they   *)
(* were and, for every other path, the value get returns, and a get that   *)
(* threw still throws invalid_argument; its message is as it was except    *)
(* for a path (k1, k) when k1 was not bound before the set: that get threw *)
(* at the first key ("key <k1> not found") and now throws at the last key  *)
(* ("key <k> not found").                                                  *)
C27_SetFrame ==
  [][last'.op = "set" =>
       /\ \A path \in Paths \ {last'.keys} :
            LET b == get_list_first(m_data, path)
                a == get_list_first(m_data', path)
            IN  /\ a.status = b.status
                /\ a.ref = b.ref
                /\ IF path[1] = last'.keys[1] /\ ~find(m_data, path[1])
                   THEN /\ b.at = 1 /\ b.what = what_not_found(str_first(path[1]))
                        /\ a.at = 2 /\ a.what = what_not_found(str_last(path[2]))
                   ELSE a.what = b.what /\ a.at = b.at
       /\ Result(m_data', last'.keys).ref = value_gen(last'.data)
       /\ m_queries' = m_queries]_vars

C27_Witness ==
  /\ last.op = "set"
  /\ last.keys = <<1, "1">>
  /\ Result(m_data, <<1, "a">>).status = "ok"
  /\ Result(m_data, <<2, "a">>).status = "ok"
  /\ Result(m_data, <<2, "1">>).status = Failed
  /\ Len(m_queries) > 0

(* C28 as the claim states it: a controller's check_parameter that comes   *)
(* right after one that passed, on the handler that one left, passes too   *)
(* and leaves the handler as it is.                                        *)
C28_SecondCheckPasses ==
  [][(/\ plast.op = "controller_check_parameter"
      /\ plast.status = "ok"
      /\ plast'.op = "controller_check_parameter") =>
       plast'.status = "ok" /\ parameters' = parameters]_vars

(* C29 as the claim states it: every entry of a controller's map, of the   *)
(* destination and of the source of a move alike, holds a parameter, and   *)
(* neither get nor check_parameter ever comes to an entry that holds none. *)
C29_EveryEntryOwnsASpec ==
  /\ \A e \in c_data \cup b_data : e[2] # Null
  /\ plast.status # "null_dereference"

(* C30: whatever order the scan takes, a controller's check_parameter on   *)
(* a given handler either passes in every order or fails in every order,   *)
(* and when it passes it leaves the same handler in every order.           *)
C30_ScanOrderIndependence ==
  [][plast'.op = "controller_check_parameter" =>
       \A order \in Orders(c_data) :
         LET r == controller_check_loop(c_data, order, 1, parameters, <<>>)
         IN  /\ (r.status = "ok") <=> (plast'.status = "ok")
             /\ r.status = "ok" => r.input = parameters']_vars

C30_Witness ==
  /\ plast.op = "controller_check_parameter"
  /\ plast.status = Failed
  /\ Cardinality(Keys(c_data)) = 2
  /\ Cardinality(Scanned(plast.ran)) = 1
  /\ \E n \in Keys(c_data) \ Scanned(plast.ran) :
       /\ Kinds(at(c_data, n).m_checks) = {"is_required"}
       /\ ~find(parameters, n)

============================================================================
